---- MODULE Spec2Model ----
(***************************************************************************)
(* A model of the VIIRS query tool (src/viirs_query_tool.py): the          *)
(* processAlgorithm run of class VIIRSQuery and its helpers.               *)
(*                                                                         *)
(* JSON values are tagged records: JNull, JStr(s), JText(cs), JNum(n),     *)
(* JDec(m) (a decimal number given in thousandths), JBool(b), JList(xs),   *)
(* JObj(f) with f the function from the object's keys to their values.     *)
(* Text the program slices (ISO dates) is JText, a sequence of             *)
(* one-character strings; text it only copies (ids, descriptions) is JStr, *)
(* a string.                                                               *)
(***************************************************************************)
EXTENDS Integers, Sequences, FiniteSets, TLC

VARIABLES
    pc,             \* position of the run
    err,            \* the kind of the exception that ended the run, "" if none
    vlayer,         \* parameterAsVectorLayer(...): JNull or a layer
    selected,       \* list(vlayer.getSelectedFeatures())
    is_point_input, \* vlayer.geometryType() == PointGeometry
    dataset_name,   \* key of DATASETS chosen by the DATASET parameter
    start_key,      \* sy * 100 + sm  (0 before the range is resolved)
    end_key,        \* ey * 100 + em  (0 before the range is resolved)
    timestamps,     \* the catalog's timestamp list handed to the filter
    ts_ids,         \* the filtered id sequence
    ts_info,        \* id -> {date_from, date_to, description}
    batches,        \* list(_chunk_list(ts_ids, 50))
    fi,             \* index into selected of the feature being processed
    bi,             \* index into batches of the batch being requested
    status,         \* status_code of the last HTTP response (0: none yet,
                    \* -1: requests.get raised, as on a timeout)
    catalogReqs,    \* number of requests.get(path_url) calls issued
    analyseReqs,    \* number of requests.get(analyse_url) calls issued
    sinkCount,      \* number of sink.addFeature calls
    canceled,       \* feedback.isCanceled() of the surrounding framework
    feat,           \* the feature whose response is being reduced
    analysed,       \* the analyse response list being reduced
    ii,             \* index into analysed of the next item
    sink            \* the rows added to the sink, in order

vars == << pc, err, vlayer, selected, is_point_input, dataset_name, start_key,
           end_key, timestamps, ts_ids, ts_info, batches, fi, bi, status,
           catalogReqs, analyseReqs, sinkCount, canceled, feat, analysed, ii,
           sink >>

\* Value of a variable that a specification does not use.
Unused == "-"

----------------------------------------------------------------------------
(* Program constants (class attributes of VIIRSQuery).                     *)

MAX_SELECTED == 5
FIRST_YEAR == 2018
MAX_TIMESTAMPS_PER_REQUEST == 50
DATASETS == {"LSTD", "LSTN", "NDVI", "EVI"}

(* Bounds of the model.                                                    *)

\* QDate.currentDate().year(): the last selectable year.
CurrentYear == 2018
\* Longest id sequence handed to _chunk_list on its own.
MaxIds == 120
\* Longest catalog of the run.
MaxCatalog == 101
\* Longest catalog handed to the filter on its own.
MaxEntries == 2
\* Most features the selection of the input layer holds.
MaxSelection == 6
\* Most items of one analyse response reduced on its own.
MaxItems == 2
\* Most items of one analyse response of the run.
MaxRunItems == 1

----------------------------------------------------------------------------
(* JSON values.                                                            *)

JNull == [t |-> "null"]
JStr(s) == [t |-> "str", s |-> s]
JText(cs) == [t |-> "text", cs |-> cs]
JNum(n) == [t |-> "num", n |-> n]
JDec(m) == [t |-> "dec", m |-> m]
JBool(b) == [t |-> "bool", b |-> b]
JList(xs) == [t |-> "list", xs |-> xs]
JObj(f) == [t |-> "obj", f |-> f]

EmptyDict == [k \in {} |-> JNull]

\* d.get(k) of a dict: None when the key is missing.
Get(d, k) == IF k \in DOMAIN d.f THEN d.f[k] ELSE JNull

\* Python truthiness of a JSON value, as `x or default` and `if x` use it.
Truthy(v) ==
    CASE v.t = "null" -> FALSE
      [] v.t = "str"  -> v.s # ""
      [] v.t = "text" -> v.cs # <<>>
      [] v.t = "num"  -> v.n # 0
      [] v.t = "dec"  -> v.m # 0
      [] v.t = "bool" -> v.b
      [] v.t = "list" -> v.xs # <<>>
      [] v.t = "obj"  -> DOMAIN v.f # {}

\* `x or d`
Or(v, d) == IF Truthy(v) THEN v ELSE d

Digit == {"0", "1", "2", "3", "4", "5", "6", "7", "8", "9"}

DigitVal(c) ==
    CASE c = "0" -> 0 [] c = "1" -> 1 [] c = "2" -> 2 [] c = "3" -> 3
      [] c = "4" -> 4 [] c = "5" -> 5 [] c = "6" -> 6 [] c = "7" -> 7
      [] c = "8" -> 8 [] c = "9" -> 9

DigitChar(d) == SubSeq(<<"0", "1", "2", "3", "4", "5", "6", "7", "8", "9">>, d + 1, d + 1)

\* str(n) of a non-negative int, as characters.
RECURSIVE DigitsOf(_)
DigitsOf(n) == IF n < 10 THEN DigitChar(n) ELSE DigitsOf(n \div 10) \o DigitChar(n % 10)

\* str(v) as characters, for the values a date field holds.
StrChars(v) ==
    CASE v.t = "text" -> v.cs
      [] v.t = "num"  -> DigitsOf(v.n)

\* str(v) as a string, for the values an id or a description holds.
StrOf(v) ==
    CASE v.t = "str" -> v.s
      [] v.t = "num" -> ToString(v.n)

\* lst[i:j] of Python for 0 <= i, on a sequence.
Slice(lst, i, j) ==
    LET hi == IF j < Len(lst) THEN j ELSE Len(lst)
    IN  IF i >= hi THEN <<>> ELSE SubSeq(lst, i + 1, hi)

----------------------------------------------------------------------------
(* _chunk_list                                                             *)

RECURSIVE ChunkFrom(_, _, _)
ChunkFrom(lst, size, i) ==
    IF i >= Len(lst) THEN <<>>
    ELSE << Slice(lst, i, i + size) >> \o ChunkFrom(lst, size, i + size)

\* A chunker that slices one element short.
ChunkListShort(lst, size) ==
    [b \in 1..Len(ChunkFrom(lst, size, 0)) |->
        Slice(lst, (b - 1) * size, b * size - 1)]

_chunk_list(lst, size) == ChunkFrom(lst, size, 0)

----------------------------------------------------------------------------
(* int(s) of Python on a sequence of characters: surrounding blanks are    *)
(* stripped, one sign is allowed, then decimal digits, single underscores  *)
(* allowed between digits.  The result is [ok |-> FALSE] where Python      *)
(* raises ValueError.                                                      *)

RECURSIVE LStrip(_)
LStrip(cs) == IF cs # <<>> /\ Head(cs) = " " THEN LStrip(Tail(cs)) ELSE cs

RECURSIVE RStrip(_)
RStrip(cs) ==
    IF cs # <<>> /\ cs[Len(cs)] = " " THEN RStrip(SubSeq(cs, 1, Len(cs) - 1)) ELSE cs

\* The digits of a literal body are well formed.
DigitsWellFormed(cs) ==
    /\ cs # <<>>
    /\ cs[1] \in Digit
    /\ cs[Len(cs)] \in Digit
    /\ \A i \in 1..Len(cs) : cs[i] \in Digit \/ cs[i] = "_"
    /\ \A i \in 1..(Len(cs) - 1) : ~(cs[i] = "_" /\ cs[i + 1] = "_")

RECURSIVE DigitsValue(_, _)
DigitsValue(cs, acc) ==
    IF cs = <<>> THEN acc
    ELSE IF Head(cs) = "_" THEN DigitsValue(Tail(cs), acc)
    ELSE DigitsValue(Tail(cs), acc * 10 + DigitVal(Head(cs)))

IntOf(s) ==
    LET cs   == RStrip(LStrip(s))
        neg  == cs # <<>> /\ Head(cs) = "-"
        sign == cs # <<>> /\ Head(cs) \in {"-", "+"}
        body == IF sign THEN Tail(cs) ELSE cs
    IN  IF DigitsWellFormed(body)
        THEN [ok |-> TRUE,
              v  |-> IF neg THEN 0 - DigitsValue(body, 0) ELSE DigitsValue(body, 0)]
        ELSE [ok |-> FALSE]

----------------------------------------------------------------------------
(* _yyyymm_from_iso, _date_only                                            *)

_yyyymm_from_iso(iso_str) ==
    IF iso_str = <<>> \/ Len(iso_str) < 7 THEN -1
    ELSE LET y == IntOf(Slice(iso_str, 0, 4))
             m == IntOf(Slice(iso_str, 5, 7))
         IN  IF y.ok /\ m.ok THEN y.v * 100 + m.v ELSE -1

_date_only(iso_str) ==
    IF iso_str = <<>> THEN <<>>
    ELSE IF Len(iso_str) >= 10 THEN Slice(iso_str, 0, 10) ELSE iso_str

----------------------------------------------------------------------------
(* The catalog filter of processAlgorithm: the loop over the catalog's     *)
(* timestamp entries that builds ts_ids and ts_info.                       *)
(* An entry is a JSON object with the keys id, date {from, to} and         *)
(* description, any of them missing or null.                               *)

\* start_key < key <= end_key: the lower end left out.
InRangeOpen(sk, key, ek) == sk < key /\ key <= ek

\* start_key <= key <= end_key
InRange(sk, key, ek) == sk <= key /\ key <= ek

\* One pass of the loop body: the id and the info the entry adds, nothing
\* when the entry is skipped.
FilterEntry(ts, sk, ek) ==
    LET ts_id         == Get(ts, "id")
        date_node     == Or(Get(ts, "date"), JObj(EmptyDict))
        date_from_iso == StrChars(Or(Get(date_node, "from"), JText(<<>>)))
        date_to_iso   == StrChars(Or(Get(date_node, "to"), JText(<<>>)))
        desc          == StrOf(Or(Get(ts, "description"), JStr("")))
        key           == _yyyymm_from_iso(date_from_iso)
    IN  IF key = -1 \/ ts_id = JNull
        THEN [ts_ids |-> <<>>, ts_info |-> EmptyDict]
        ELSE IF InRange(sk, key, ek)
        THEN [ts_ids  |-> << StrOf(ts_id) >>,
              ts_info |-> (StrOf(ts_id) :> [date_from   |-> _date_only(date_from_iso),
                                            date_to     |-> _date_only(date_to_iso),
                                            description |-> desc])]
        ELSE [ts_ids |-> <<>>, ts_info |-> EmptyDict]

\* The loop over entries[lo..hi], in order: ids are appended, and a later
\* entry's info replaces an earlier one's under the same id.  The range is
\* folded in halves, which bounds the depth of the evaluation.
RECURSIVE FilterRange(_, _, _, _, _)
FilterRange(entries, lo, hi, sk, ek) ==
    IF lo > hi THEN [ts_ids |-> <<>>, ts_info |-> EmptyDict]
    ELSE IF lo = hi THEN FilterEntry(entries[lo], sk, ek)
    ELSE LET mid   == (lo + hi) \div 2
             left  == FilterRange(entries, lo, mid, sk, ek)
             right == FilterRange(entries, mid + 1, hi, sk, ek)
         IN  [ts_ids  |-> left.ts_ids \o right.ts_ids,
              ts_info |-> right.ts_info @@ left.ts_info]

FilterTimestamps(entries, sk, ek) == FilterRange(entries, 1, Len(entries), sk, ek)

----------------------------------------------------------------------------
(* The time range: years and months are the lists the enum parameters      *)
(* index; MonthInputs are the months the model draws.                      *)

Years == FIRST_YEAR..CurrentYear
Months == 1..12
MonthInputs == { m \in Months : m % 6 = 0 }
RangeKeys == {y * 100 + m : y \in Years, m \in MonthInputs}

\* The comparison of the years alone.
RangeRejectedByYear(sk, ek) == (sk \div 100) > (ek \div 100)

\* `start_key > end_key` is the test that rejects a range.
RangeRejected(sk, ek) == sk > ek

----------------------------------------------------------------------------
(* Initial values shared by the specifications.                            *)

IdleRun ==
    /\ err = ""
    /\ vlayer = Unused /\ selected = Unused
    /\ fi = 0 /\ bi = 0 /\ status = 0
    /\ catalogReqs = 0 /\ analyseReqs = 0 /\ sinkCount = 0
    /\ canceled = FALSE

IdleRows ==
    /\ feat = Unused /\ analysed = Unused /\ ii = 0 /\ sink = Unused
    /\ is_point_input = Unused /\ dataset_name = Unused

----------------------------------------------------------------------------
(* SpecChunk: _chunk_list on its own, at the size processAlgorithm uses.   *)

\* Id sequences: n distinct ids, or n copies of one id.
IdSequences ==
    {[i \in 1..n |-> ToString(i)] : n \in 0..MaxIds}
      \cup {[i \in 1..n |-> "x"] : n \in 0..MaxIds}

InitChunk ==
    /\ pc = "chunk_in"
    /\ ts_ids \in IdSequences
    /\ batches = <<>>
    /\ timestamps = Unused /\ ts_info = Unused
    /\ start_key = 0 /\ end_key = 0
    /\ IdleRun /\ IdleRows

ChunkStep ==
    /\ pc = "chunk_in"
    /\ batches' = _chunk_list(ts_ids, MAX_TIMESTAMPS_PER_REQUEST)
    /\ pc' = "chunk_out"
    /\ UNCHANGED << err, vlayer, selected, is_point_input, dataset_name,
                    start_key, end_key, timestamps, ts_ids, ts_info, fi, bi,
                    status, catalogReqs, analyseReqs, sinkCount, canceled, feat,
                    analysed, ii, sink >>

NextChunk == ChunkStep

SpecChunk == InitChunk /\ [][NextChunk]_vars

----------------------------------------------------------------------------
(* SpecFilter: the catalog filter on its own, on short catalogs whose      *)
(* entries cover the shapes the filter tells apart.                        *)

Chars_2018_06 == <<"2", "0", "1", "8", "-", "0", "6", "-", "0", "1", "T", "0", "0">>
Chars_2018_12 == <<"2", "0", "1", "8", "-", "1", "2", "-", "3", "1">>
Chars_2017_12 == <<"2", "0", "1", "7", "-", "1", "2", "-", "3", "1">>
Chars_short   == <<"2", "0", "1", "8", "-", "1">>
Chars_bad     == <<"2", "0", "1", "8", "-", "x", "x", "-", "0", "1">>

FromValues ==
    { JNull, JText(Chars_2018_06), JText(Chars_2018_12), JText(Chars_2017_12),
      JText(Chars_short), JText(Chars_bad), JNum(20180115) }

IdValues == { JNull, JStr("a"), JNum(7) }

\* Entries with a date node; a null id or from is the key left out.
FilterEntries ==
    { JObj([id |-> i, date |-> JObj([from |-> f, to |-> JText(Chars_2018_12)]),
            description |-> JStr("d")]) : i \in IdValues, f \in FromValues }
      \cup { JObj([id |-> i, date |-> JObj(EmptyDict)]) : i \in IdValues }
      \cup { JObj([date |-> JObj([from |-> JText(Chars_2018_06)])]) }

RECURSIVE SeqsUpTo(_, _)
SeqsUpTo(S, n) ==
    IF n = 0 THEN { <<>> }
    ELSE LET shorter == SeqsUpTo(S, n - 1)
         IN  shorter \cup { Append(q, x) : q \in { r \in shorter : Len(r) = n - 1 }, x \in S }

InitFilter ==
    /\ pc = "filter_in"
    /\ timestamps \in (SeqsUpTo(FilterEntries, MaxEntries) \ { <<>> })
    /\ start_key \in RangeKeys
    /\ end_key \in RangeKeys
    /\ ~RangeRejected(start_key, end_key)
    /\ ts_ids = <<>> /\ ts_info = EmptyDict /\ batches = <<>>
    /\ IdleRun /\ IdleRows

FilterStep ==
    /\ pc = "filter_in"
    /\ LET got == FilterTimestamps(timestamps, start_key, end_key)
       IN  /\ ts_ids' = got.ts_ids
           /\ ts_info' = got.ts_info
           /\ err' = IF got.ts_ids = <<>> THEN "EmptyRange" ELSE ""
    /\ pc' = "filter_out"
    /\ UNCHANGED << vlayer, selected, is_point_input, dataset_name, start_key,
                    end_key, timestamps, batches, fi, bi, status, catalogReqs,
                    analyseReqs, sinkCount, canceled, feat, analysed, ii, sink >>

NextFilter == FilterStep

SpecFilter == InitFilter /\ [][NextFilter]_vars

----------------------------------------------------------------------------
(* Claims about _chunk_list (SpecChunk).                                   *)

RECURSIVE Concat(_)
Concat(ss) == IF ss = <<>> THEN <<>> ELSE Head(ss) \o Concat(Tail(ss))

\* C3: the batches of _chunk_list(ts_ids, 50) partition ts_ids: their
\* concatenation in order is ts_ids, no batch is empty, none has more than
\* 50 ids, and every batch but possibly the last has exactly 50 ids.
C3_BatchesPartition ==
    pc = "chunk_out" =>
        /\ Concat(batches) = ts_ids
        /\ \A b \in 1..Len(batches) :
              /\ Len(batches[b]) >= 1
              /\ Len(batches[b]) <= 50
              /\ (b < Len(batches) => Len(batches[b]) = 50)

\* Three batches, the last one partial, of distinct ids.
C3_Witness ==
    /\ pc = "chunk_out"
    /\ Len(batches) = 3
    /\ Len(batches[3]) < 50
    /\ ts_ids[1] # ts_ids[2]

----------------------------------------------------------------------------
(* Claims about the catalog filter (SpecFilter).                           *)

\* The key the claim expects of each `from` value of the catalogs drawn:
\* year * 100 + month of the characters at 0..3 and 5..6, -1 when the date
\* is missing or these are not numbers.
ClaimKey(from) ==
    CASE from = JNull                -> -1
      [] from = JText(Chars_2018_06) -> 201806
      [] from = JText(Chars_2018_12) -> 201812
      [] from = JText(Chars_2017_12) -> 201712
      [] from = JText(Chars_short)   -> -1
      [] from = JText(Chars_bad)     -> -1
      [] from = JNum(20180115)       -> 201811

ClaimFrom(ts) == Get(Or(Get(ts, "date"), JObj(EmptyDict)), "from")

\* The catalog positions the claim says are retained.
ClaimKept ==
    { i \in 1..Len(timestamps) :
        /\ Get(timestamps[i], "id") # JNull
        /\ ClaimKey(ClaimFrom(timestamps[i])) # -1
        /\ start_key <= ClaimKey(ClaimFrom(timestamps[i]))
        /\ ClaimKey(ClaimFrom(timestamps[i])) <= end_key }

ClaimRank(i) == Cardinality({ k \in ClaimKept : k <= i })

\* C9: ts_ids is the subsequence, in source order, of the catalog entries
\* with a non-null id and a parseable from date whose key lies in
\* [start_key, end_key]; the other entries are skipped; every id of ts_ids
\* has an entry in ts_info.
C9_FilterIsSubsequence ==
    pc = "filter_out" =>
        /\ Len(ts_ids) = Cardinality(ClaimKept)
        /\ \A i \in ClaimKept : ts_ids[ClaimRank(i)] = StrOf(Get(timestamps[i], "id"))
        /\ \A j \in 1..Len(ts_ids) : ts_ids[j] \in DOMAIN ts_info

\* A catalog whose first entry has an unparseable date and is skipped and
\* whose second entry is retained.
C9_Witness ==
    /\ pc = "filter_out"
    /\ Len(timestamps) = 2
    /\ ClaimFrom(timestamps[1]) = JText(Chars_bad)
    /\ Get(timestamps[1], "id") # JNull
    /\ ts_ids = << "7" >>
    /\ err = ""

----------------------------------------------------------------------------
(* _round2: round(float(value), 2).  A decimal is held in thousandths, so  *)
(* rounding to 2 places rounds to a multiple of 10.  Where the third       *)
(* decimal is 5 the result is that of the binary double nearest the        *)
(* decimal (12.345 -> 12.35, 1.005 -> 1.0, 9.995 -> 9.99, 0.125 -> 0.12);  *)
(* TieUp tabulates it for the decimals the model draws.                    *)

TieUp(m) ==
    CASE m = 12345 -> 1
      [] m = 1005  -> 0
      [] m = 9995  -> 0
      [] m = 125   -> 0

RoundThousandths(m) ==
    LET q == m \div 10
        r == m % 10
    IN  IF r < 5 THEN 10 * q
        ELSE IF r > 5 THEN 10 * (q + 1)
        ELSE 10 * (q + TieUp(m))

\* float() raises for the strings the model draws (none is a numeral) and
\* for lists and objects; _round2 then returns None.
_round2(value) ==
    CASE value.t = "null" -> JNull
      [] value.t = "dec"  -> JDec(RoundThousandths(value.m))
      [] value.t = "num"  -> JDec(1000 * value.n)
      [] value.t = "bool" -> JDec(IF value.b THEN 1000 ELSE 0)
      [] OTHER            -> JNull

----------------------------------------------------------------------------
(* _pixel_value_from_statistics                                            *)

\* The statistics' mean, whatever the histogram holds.
PixelValueMeanOnly(stats) ==
    IF ~Truthy(stats) THEN JNull ELSE Get(stats, "mean")

_pixel_value_from_statistics(stats) ==
    IF ~Truthy(stats) THEN JNull
    ELSE
      LET hist == Get(stats, "histogram")
      IN  IF hist.t = "list" /\ hist.xs # <<>>
          THEN LET first == Or(hist.xs[1], JObj(EmptyDict))
               IN  IF first.t = "obj" /\ Get(first, "bin") # JNull
                   THEN Get(first, "bin")
                   ELSE Get(stats, "mean")
          ELSE Get(stats, "mean")

----------------------------------------------------------------------------
(* The row reducer of processAlgorithm: the body of `for item in analysed`.*)

\* `number == 1` of Python: the int 1, the float 1.0 and True are equal to 1.
EqualsOne(v) == v = JNum(1) \/ v = JDec(1000) \/ v = JBool(TRUE)

\* The `for res in item.get("result") or []` scan: the statistics of the
\* first result whose band number is 1, None when there is none.
RECURSIVE Band1From(_, _)
Band1From(results, i) ==
    IF i > Len(results) THEN JNull
    ELSE LET res == results[i]
         IN  IF EqualsOne(Get(Or(Get(res, "band"), JObj(EmptyDict)), "number"))
             THEN Or(Get(res, "statistics"), JObj(EmptyDict))
             ELSE Band1From(results, i + 1)

Band1Statistics(item) == Band1From(Or(Get(item, "result"), JList(<<>>)).xs, 1)

\* info.get(field, ""), info being ts_info.get(ts_id, {}).
InfoField(info, ts_id, field, default) ==
    IF ts_id \in DOMAIN info THEN info[ts_id][field] ELSE default

\* The point branch gated on has_data; the zonal branch is not.
PointValue(has_data, stats) ==
    IF has_data = 1 THEN _round2(_pixel_value_from_statistics(stats)) ELSE JNull

ZonalValue(has_data, stats, k) ==
    _round2(IF Truthy(stats) THEN Get(stats, k) ELSE JNull)

ZonalKeys == {"min", "max", "mean", "median", "deviation", "sum"}

\* The attributes of the out_f added to the sink for one item.
RowOf(f, item, info, isPoint, dataset) ==
    LET ts_id    == StrOf(Or(Get(Or(Get(item, "timestamp"), JObj(EmptyDict)), "id"), JStr("")))
        has_data == IF Truthy(Get(item, "hasData")) THEN 1 ELSE 0
        stats    == Band1Statistics(item)
        base     == [input_fid   |-> f.input_fid,
                     input_id    |-> f.input_id_value,
                     dataset     |-> dataset,
                     timestampId |-> ts_id,
                     date_from   |-> InfoField(info, ts_id, "date_from", <<>>),
                     date_to     |-> InfoField(info, ts_id, "date_to", <<>>),
                     description |-> InfoField(info, ts_id, "description", ""),
                     hasData     |-> has_data]
    IN  IF isPoint
        THEN base @@ [pixel_value |-> PointValue(has_data, stats)]
        ELSE base @@ [k \in ZonalKeys |-> ZonalValue(has_data, stats, k)]

\* A reducer that emits no row for an item without data.
RECURSIVE RowsSkippingNoData(_, _, _, _, _)
RowsSkippingNoData(f, items, info, isPoint, dataset) ==
    IF items = <<>> THEN <<>>
    ELSE (IF Truthy(Get(Head(items), "hasData"))
          THEN << RowOf(f, Head(items), info, isPoint, dataset) >>
          ELSE <<>>)
         \o RowsSkippingNoData(f, Tail(items), info, isPoint, dataset)

\* The rows `for item in analysed` adds to the sink, in order.
RECURSIVE RowsFrom(_, _, _, _, _, _)
RowsFrom(f, items, i, info, isPoint, dataset) ==
    IF i > Len(items) THEN <<>>
    ELSE << RowOf(f, items[i], info, isPoint, dataset) >>
         \o RowsFrom(f, items, i + 1, info, isPoint, dataset)

ReduceResponse(f, items, info, isPoint, dataset) ==
    RowsFrom(f, items, 1, info, isPoint, dataset)

----------------------------------------------------------------------------
(* SpecRows: the reduction of one analyse response on its own, on items    *)
(* that cover the shapes the reducer tells apart.                          *)

ZonalStats ==
    JObj([min |-> JDec(1005), max |-> JDec(9995), mean |-> JDec(5000),
          median |-> JDec(5000), deviation |-> JDec(2500), sum |-> JDec(50000)])

Histograms ==
    { JList(<<>>),
      JList(<< JObj([bin |-> JDec(12345)]) >>),
      JList(<< JObj([bin |-> JDec(0)]), JObj([bin |-> JDec(9995)]) >>),
      JList(<< JObj([bin |-> JStr("n/a")]) >>),
      JList(<< JObj([count |-> JNum(3)]) >>),
      JList(<< JNull >>),
      JStr("h") }

StatsValues ==
    { ZonalStats, JObj(EmptyDict), JObj([mean |-> JDec(7004)]),
      JObj([histogram |-> JList(<< JObj([bin |-> JDec(12345)]) >>)]) }
      \cup { JObj([histogram |-> h, mean |-> JDec(7004)]) : h \in Histograms }

Band(n) == JObj([number |-> JNum(n)])

ResultValues ==
    { JNull,
      JList(<< JObj([band |-> Band(2), statistics |-> ZonalStats]) >>),
      JList(<< JObj([band |-> Band(1)]) >>),
      JList(<< JObj([band |-> Band(2), statistics |-> JObj([mean |-> JDec(125)])]),
               JObj([band |-> Band(1), statistics |-> ZonalStats]) >>) }
      \cup { JList(<< JObj([band |-> Band(1), statistics |-> s]) >>) : s \in StatsValues }

HasDataValues == { JNull, JBool(TRUE), JBool(FALSE) }

Item(ts, hd, r) == JObj([timestamp |-> ts, hasData |-> hd, result |-> r])

\* Items with an id of the catalog and a hasData flag, and items with an
\* unknown or no id, or no hasData flag.
Items ==
    { Item(JObj([id |-> JStr("a")]), JBool(hd), r) : hd \in BOOLEAN, r \in ResultValues }
      \cup { Item(ts, hd, JList(<< JObj([band |-> Band(1), statistics |-> ZonalStats]) >>)) :
                 ts \in { JNull, JObj([id |-> JStr("a")]), JObj([id |-> JStr("zz")]) },
                 hd \in HasDataValues }

RowsInfo ==
    ("a" :> [date_from |-> SubSeq(Chars_2018_06, 1, 10), date_to |-> Chars_2018_12,
             description |-> "d"])

InitRows ==
    /\ pc = "rows_in"
    /\ is_point_input \in BOOLEAN
    /\ dataset_name \in DATASETS
    /\ feat = [input_fid |-> 1, input_id_value |-> "k1"]
    /\ ts_info = RowsInfo
    /\ analysed \in SeqsUpTo(Items, MaxItems)
    /\ ii = 1
    /\ sink = <<>>
    /\ sinkCount = 0
    /\ err = "" /\ vlayer = Unused /\ selected = Unused
    /\ start_key = 0 /\ end_key = 0
    /\ timestamps = Unused /\ ts_ids = Unused /\ batches = Unused
    /\ fi = 0 /\ bi = 0 /\ status = 200
    /\ catalogReqs = 0 /\ analyseReqs = 0 /\ canceled = FALSE

ReduceStep ==
    /\ pc = "rows_in"
    /\ LET rows == ReduceResponse(feat, analysed, ts_info, is_point_input, dataset_name)
       IN  /\ sink' = sink \o rows
           /\ sinkCount' = sinkCount + Len(rows)
    /\ ii' = Len(analysed) + 1
    /\ pc' = "rows_out"
    /\ UNCHANGED << err, vlayer, selected, is_point_input, dataset_name,
                    start_key, end_key, timestamps, ts_ids, ts_info, batches,
                    fi, bi, status, catalogReqs, analyseReqs, canceled, feat,
                    analysed >>

NextRows == ReduceStep

SpecRows == InitRows /\ [][NextRows]_vars

----------------------------------------------------------------------------
(* Claims about the row reducer (SpecRows).                                *)

\* The value columns of a row are all null.
ValuesNull(row) ==
    IF is_point_input
    THEN row.pixel_value = JNull
    ELSE \A k \in ZonalKeys : row[k] = JNull

\* C1: every row emitted from an item whose hasData flag is false has null
\* value columns, whatever band-1 statistics the item carries: pixel_value
\* for a point layer, all six zonal columns for a line/polygon layer.
C1_NoDataRowsAreNull ==
    pc = "rows_out" =>
        \A j \in 1..Len(sink) :
            Get(analysed[j], "hasData") = JBool(FALSE) => ValuesNull(sink[j])

\* The timestamp id the claim reads off an item: "" when it has none.
ClaimItemId(item) ==
    LET ts == Get(item, "timestamp")
    IN  IF ts = JNull \/ Get(ts, "id") = JNull THEN "" ELSE Get(ts, "id").s

\* C5: every item of a response list received for a feature adds exactly
\* one row to the sink, whatever its hasData flag, band-1 result or id; a
\* row whose id is not in the filtered catalog has empty date_from, date_to
\* and description.
C5_OneRowPerItem ==
    pc = "rows_out" =>
        /\ Len(sink) = Len(analysed)
        /\ sinkCount = Len(analysed)
        /\ \A j \in 1..Len(analysed) :
              /\ j <= Len(sink)
              /\ sink[j].timestampId = ClaimItemId(analysed[j])
              /\ (ClaimItemId(analysed[j]) \notin DOMAIN ts_info =>
                     /\ sink[j].date_from = <<>>
                     /\ sink[j].date_to = <<>>
                     /\ sink[j].description = "")

\* Two items, the first without data and with an id the catalog lacks, the
\* second with a known id and no band-1 result: two rows.
C5_Witness ==
    /\ pc = "rows_out"
    /\ Len(analysed) = 2
    /\ ClaimItemId(analysed[1]) = "zz"
    /\ Get(analysed[1], "hasData") = JBool(FALSE)
    /\ ClaimItemId(analysed[2]) = "a"
    /\ Get(analysed[2], "result") = JNull
    /\ Len(sink) = 2
    /\ sink[1].date_from = <<>>
    /\ sink[2].date_from # <<>>

\* The histogram of the statistics is a list with at least one entry.
ClaimHasHistogram(stats) ==
    /\ stats # JNull
    /\ Get(stats, "histogram").t = "list"
    /\ Get(stats, "histogram").xs # <<>>

\* The `bin` of the first histogram entry, null when the entry has none.
ClaimFirstBin(stats) ==
    LET first == Get(stats, "histogram").xs[1]
    IN  IF first.t = "obj" THEN Get(first, "bin") ELSE JNull

ClaimMean(stats) == IF stats = JNull THEN JNull ELSE Get(stats, "mean")

\* C6 as stated: for a point layer and an item with data, pixel_value is
\* the rounded bin of the first histogram entry whenever the band-1
\* statistics hold a histogram with at least one entry, and the rounded
\* mean only when they hold no such histogram.
C6_BinWheneverHistogram ==
    (pc = "rows_out" /\ is_point_input) =>
        \A j \in 1..Len(sink) :
            sink[j].hasData = 1 =>
                LET stats == Band1Statistics(analysed[j])
                IN  sink[j].pixel_value =
                        IF ClaimHasHistogram(stats)
                        THEN _round2(ClaimFirstBin(stats))
                        ELSE _round2(ClaimMean(stats))

\* C6 amended: pixel_value is the rounded bin of the first histogram entry
\* whenever the histogram has at least one entry and that first entry has a
\* non-null bin, whatever the mean; in every other case it is the rounded
\* mean (null when the statistics hold none).
C6_BinWhenFirstBinPresent ==
    (pc = "rows_out" /\ is_point_input) =>
        \A j \in 1..Len(sink) :
            sink[j].hasData = 1 =>
                LET stats == Band1Statistics(analysed[j])
                IN  sink[j].pixel_value =
                        IF ClaimHasHistogram(stats) /\ ClaimFirstBin(stats) # JNull
                        THEN _round2(ClaimFirstBin(stats))
                        ELSE _round2(ClaimMean(stats))

\* A point row with data whose statistics hold the histogram [{bin: 12.345}]
\* and the mean 7.004: pixel_value is 12.35.
C6_Witness ==
    /\ pc = "rows_out"
    /\ is_point_input
    /\ Len(sink) = 1
    /\ sink[1].hasData = 1
    /\ Band1Statistics(analysed[1]) =
           JObj([histogram |-> JList(<< JObj([bin |-> JDec(12345)]) >>),
                 mean |-> JDec(7004)])
    /\ sink[1].pixel_value = JDec(12350)

----------------------------------------------------------------------------
(* Spec: a run of processAlgorithm.  The sink is held as the number of     *)
(* features added to it; SpecRows holds the rows themselves.  The catalog  *)
(* response is consumed by the step that receives it: the run keeps        *)
(* ts_ids, ts_info and batches.  A blocking requests.get is two steps, the *)
(* call being issued and its response arriving, so that the framework's    *)
(* cancellation can fall between them.                                     *)

\* A feature of the selection: its id, the attribute named by the ID_FIELD
\* parameter, and whether its geometry is empty.
Feature(i, e) == [id |-> i, attr |-> JNum(10 + i), empty |-> e]

Selections ==
    UNION { [1..k -> BOOLEAN] : k \in 0..MaxSelection }

Layers ==
    { [selected |-> [i \in 1..Len(es) |-> Feature(i, es[i])], isPoint |-> p] :
          es \in Selections, p \in BOOLEAN }

\* A selection check that also rejects MAX_SELECTED features.
SelectionErrorOffByOne(n) ==
    IF n = 0 THEN "SelectAtLeastOne"
    ELSE IF n >= MAX_SELECTED THEN "TooManySelected"
    ELSE ""

\* The two checks on len(selected): the error raised, "" for none.
SelectionError(n) ==
    IF n = 0 THEN "SelectAtLeastOne"
    ELSE IF n > MAX_SELECTED THEN "TooManySelected"
    ELSE ""

\* Every status taken for a success.
HttpOkAlways(code) == TRUE

\* `status_code != 200` is the test that fails a request.
HttpOk(code) == code = 200

\* No feature skipped for its geometry.
GeometryEmptyNever(f) == FALSE

\* `geom is None or geom.isEmpty()`
GeometryEmpty(f) == f.empty

\* input_id_value of a feature; the model always names an ID_FIELD.
InputIdValue(f) == IF f.attr = JNull THEN "" ELSE StrOf(f.attr)

\* The dataset the run draws: the dataset changes the id in the request
\* URLs and the dataset column of the rows, nothing else.
RunDatasets == {"NDVI"}

Chars_06 == <<"2", "0", "1", "8", "-", "0", "6">>
Chars_12 == <<"2", "0", "1", "8", "-", "1", "2">>

\* A catalog of n entries with the ids 1..n, dated 2018-06 and 2018-12 in turn.
Catalog(n) ==
    [i \in 1..n |->
        JObj([id   |-> JNum(i),
              date |-> JObj([from |-> JText(IF i % 2 = 1 THEN Chars_06 ELSE Chars_12)])])]

CatalogBodies ==
    { JObj([raster |-> JObj([timestamps |-> JList(Catalog(n))])]) : n \in {0, 1, MaxCatalog} }
      \cup { JObj(EmptyDict), JObj([raster |-> JObj([timestamps |-> JStr("none")])]) }

\* 200, an error status, and -1 for a call that raised (a timeout).
CatalogResponses ==
    { [status |-> 200, body |-> b] : b \in CatalogBodies }
      \cup { [status |-> c, body |-> JObj(EmptyDict)] : c \in {404, -1} }

\* (data.get("raster") or {}).get("timestamps") or []
TimestampsOf(data) ==
    Or(Get(Or(Get(data, "raster"), JObj(EmptyDict)), "timestamps"), JList(<<>>))

RunItems ==
    { Item(JObj([id |-> JStr("1")]), JBool(TRUE),
           JList(<< JObj([band |-> Band(1), statistics |-> ZonalStats]) >>)),
      Item(JObj([id |-> JStr("zz")]), JBool(FALSE), JNull) }

AnalyseResponses ==
    { [status |-> 200, body |-> JList(items)] : items \in SeqsUpTo(RunItems, MaxRunItems) }
      \cup { [status |-> 200, body |-> JObj([message |-> JStr("m")])] }
      \cup { [status |-> c, body |-> JList(items)] :
                 c \in {500, -1}, items \in SeqsUpTo(RunItems, 1) }

Init ==
    /\ pc = "start"
    /\ err = ""
    /\ vlayer \in Layers \cup { JNull }
    /\ selected = <<>>
    /\ is_point_input = FALSE
    /\ dataset_name = ""
    /\ start_key = 0 /\ end_key = 0
    /\ timestamps = Unused
    /\ ts_ids = <<>> /\ ts_info = EmptyDict /\ batches = <<>>
    /\ fi = 0 /\ bi = 0
    /\ status = 0
    /\ catalogReqs = 0 /\ analyseReqs = 0 /\ sinkCount = 0
    /\ canceled = FALSE
    /\ feat = Unused /\ analysed = Unused /\ ii = 0 /\ sink = Unused

Fail(kind) == pc' = "failed" /\ err' = kind

\* Lines 210-227: the layer, the selection checks, the geometry type and
\* the dataset.
Start ==
    /\ pc = "start"
    /\ IF vlayer = JNull
       THEN /\ Fail("InvalidLayer")
            /\ UNCHANGED << selected, is_point_input, dataset_name >>
       ELSE /\ selected' = vlayer.selected
            /\ IF SelectionError(Len(vlayer.selected)) # ""
               THEN /\ Fail(SelectionError(Len(vlayer.selected)))
                    /\ UNCHANGED << is_point_input, dataset_name >>
               ELSE /\ is_point_input' = vlayer.isPoint
                    /\ dataset_name' \in RunDatasets
                    /\ pc' = "range"
                    /\ err' = err
    /\ UNCHANGED << vlayer, start_key, end_key, timestamps, ts_ids, ts_info,
                    batches, fi, bi, status, catalogReqs, analyseReqs,
                    sinkCount, canceled, feat, analysed, ii, sink >>

\* Lines 229-242: the time range.
ResolveRange ==
    /\ pc = "range"
    /\ \E sy \in Years, sm \in MonthInputs, ey \in Years, em \in MonthInputs :
          /\ start_key' = sy * 100 + sm
          /\ end_key' = ey * 100 + em
          /\ IF RangeRejected(sy * 100 + sm, ey * 100 + em)
             THEN Fail("InvalidRange")
             ELSE pc' = "catalog" /\ err' = err
    /\ UNCHANGED << vlayer, selected, is_point_input, dataset_name, timestamps,
                    ts_ids, ts_info, batches, fi, bi, status, catalogReqs,
                    analyseReqs, sinkCount, canceled, feat, analysed, ii, sink >>

\* Line 246: requests.get(path_url) is called.
IssueCatalog ==
    /\ pc = "catalog"
    /\ catalogReqs' = catalogReqs + 1
    /\ pc' = "catalog_wait"
    /\ UNCHANGED << err, vlayer, selected, is_point_input, dataset_name,
                    start_key, end_key, timestamps, ts_ids, ts_info, batches,
                    fi, bi, status, analyseReqs, sinkCount, canceled, feat,
                    analysed, ii, sink >>

\* Lines 246-322: the catalog response, the filter, the batches.
ReceiveCatalog ==
    /\ pc = "catalog_wait"
    /\ \E r \in CatalogResponses :
          /\ status' = r.status
          /\ IF ~HttpOk(r.status)
             THEN /\ Fail("CatalogFetch")
                  /\ UNCHANGED << ts_ids, ts_info, batches, fi, bi >>
             ELSE
               LET ts == TimestampsOf(r.body)
               IN  IF ts.t # "list" \/ ts.xs = <<>>
                   THEN /\ Fail("NoTimestamps")
                        /\ UNCHANGED << ts_ids, ts_info, batches, fi, bi >>
                   ELSE
                     LET got == FilterTimestamps(ts.xs, start_key, end_key)
                     IN  /\ ts_ids' = got.ts_ids
                         /\ ts_info' = got.ts_info
                         /\ IF got.ts_ids = <<>>
                            THEN /\ Fail("EmptyRange")
                                 /\ UNCHANGED << batches, fi, bi >>
                            ELSE /\ batches' = _chunk_list(got.ts_ids, MAX_TIMESTAMPS_PER_REQUEST)
                                 /\ fi' = 1
                                 /\ bi' = 1
                                 /\ pc' = "loop"
                                 /\ err' = err
    /\ UNCHANGED << vlayer, selected, is_point_input, dataset_name, start_key,
                    end_key, timestamps, catalogReqs, analyseReqs, sinkCount,
                    canceled, feat, analysed, ii, sink >>

\* Lines 332-334: a feature with an empty geometry is passed over.
SkipFeature ==
    /\ pc = "loop"
    /\ fi <= Len(selected)
    /\ GeometryEmpty(selected[fi])
    /\ fi' = fi + 1
    /\ UNCHANGED << pc, err, vlayer, selected, is_point_input, dataset_name,
                    start_key, end_key, timestamps, ts_ids, ts_info, batches,
                    bi, status, catalogReqs, analyseReqs, sinkCount, canceled,
                    feat, analysed, ii, sink >>

\* Line 357: requests.get(analyse_url) is called for feature fi, batch bi.
IssueAnalyse ==
    /\ pc = "loop"
    /\ fi <= Len(selected)
    /\ ~GeometryEmpty(selected[fi])
    /\ analyseReqs' = analyseReqs + 1
    /\ pc' = "analyse_wait"
    /\ UNCHANGED << err, vlayer, selected, is_point_input, dataset_name,
                    start_key, end_key, timestamps, ts_ids, ts_info, batches,
                    fi, bi, status, catalogReqs, sinkCount, canceled, feat,
                    analysed, ii, sink >>

\* Lines 357-409: the analyse response and its rows; then the next batch,
\* or the next feature after the last batch.
ReceiveAnalyse ==
    /\ pc = "analyse_wait"
    /\ \E r \in AnalyseResponses :
          /\ status' = r.status
          /\ IF ~HttpOk(r.status)
             THEN /\ Fail("AnalyseRequest")
                  /\ UNCHANGED << fi, bi, sinkCount >>
             ELSE IF r.body.t # "list"
             THEN /\ Fail("MalformedResponse")
                  /\ UNCHANGED << fi, bi, sinkCount >>
             ELSE /\ sinkCount' = sinkCount +
                       Len(ReduceResponse([input_fid      |-> selected[fi].id,
                                           input_id_value |-> InputIdValue(selected[fi])],
                                          r.body.xs, ts_info, is_point_input,
                                          dataset_name))
                  /\ IF bi < Len(batches)
                     THEN bi' = bi + 1 /\ fi' = fi
                     ELSE bi' = 1 /\ fi' = fi + 1
                  /\ pc' = "loop"
                  /\ err' = err
    /\ UNCHANGED << vlayer, selected, is_point_input, dataset_name, start_key,
                    end_key, timestamps, ts_ids, ts_info, batches, catalogReqs,
                    analyseReqs, canceled, feat, analysed, ii, sink >>

\* Line 411: the loop over the selection is over.
Finish ==
    /\ pc = "loop"
    /\ fi > Len(selected)
    /\ pc' = "done"
    /\ UNCHANGED << err, vlayer, selected, is_point_input, dataset_name,
                    start_key, end_key, timestamps, ts_ids, ts_info, batches,
                    fi, bi, status, catalogReqs, analyseReqs, sinkCount,
                    canceled, feat, analysed, ii, sink >>

\* The framework's user cancels the run: feedback.isCanceled() turns true.
\* processAlgorithm never reads it.
Cancel ==
    /\ pc \notin {"done", "failed"}
    /\ ~canceled
    /\ canceled' = TRUE
    /\ UNCHANGED << pc, err, vlayer, selected, is_point_input, dataset_name,
                    start_key, end_key, timestamps, ts_ids, ts_info, batches,
                    fi, bi, status, catalogReqs, analyseReqs, sinkCount, feat,
                    analysed, ii, sink >>

Next ==
    \/ Start
    \/ ResolveRange
    \/ IssueCatalog
    \/ ReceiveCatalog
    \/ SkipFeature
    \/ IssueAnalyse
    \/ ReceiveAnalyse
    \/ Finish
    \/ Cancel

Spec == Init /\ [][Next]_vars

----------------------------------------------------------------------------
(* Claims about the run (Spec).                                            *)

CeilDiv(n, d) == (n + d - 1) \div d

NonEmptyFeatures == { i \in 1..Len(selected) : ~selected[i].empty }

\* C2 as stated: in a run in which every request succeeds, with k selected
\* features and n retained timestamps, one catalog request and exactly
\* k * ceil(n / 50) analyse requests are issued, features with an empty
\* geometry included.
C2_RequestsPerSelectedFeature ==
    pc = "done" =>
        /\ catalogReqs = 1
        /\ analyseReqs = Len(selected) * CeilDiv(Len(ts_ids), 50)

\* C2 amended: in a run that completes (every request returns 200 and every
\* analyse body is a list), one catalog request and exactly
\* k' * ceil(n / 50) analyse requests are issued, k' being the number of
\* selected features whose geometry is not empty.
C2_RequestsPerNonEmptyFeature ==
    pc = "done" =>
        /\ catalogReqs = 1
        /\ analyseReqs = Cardinality(NonEmptyFeatures) * CeilDiv(Len(ts_ids), 50)

\* A completed run of five features, one of them empty, over three batches.
C2_Witness ==
    /\ pc = "done"
    /\ Len(selected) = 5
    /\ Cardinality(NonEmptyFeatures) = 4
    /\ Len(batches) = 3
    /\ analyseReqs = 12

\* C4: whenever the resolved range has start_key > end_key, the run has
\* failed with the invalid-range error and no catalog request, no analyse
\* request and no row has been issued or written.
C4_InvalidRangeBeforeNetwork ==
    start_key > end_key =>
        /\ pc = "failed"
        /\ err = "InvalidRange"
        /\ catalogReqs = 0
        /\ analyseReqs = 0
        /\ sinkCount = 0
        /\ status = 0

C4_Witness ==
    /\ start_key = 201812
    /\ end_key = 201806
    /\ pc = "failed"
    /\ err = "InvalidRange"

SelectionErrors == {"SelectAtLeastOne", "TooManySelected"}

\* C8: with 0 or more than 5 features selected the run fails with the
\* invalid-selection error, no request issued and no row written; with 1 to
\* 5 features selected the selection check does not fail.
C8_SelectionCheck ==
    (pc # "start" /\ vlayer # JNull) =>
        IF Len(vlayer.selected) = 0 \/ Len(vlayer.selected) > 5
        THEN /\ pc = "failed"
             /\ err \in SelectionErrors
             /\ catalogReqs = 0
             /\ analyseReqs = 0
             /\ sinkCount = 0
        ELSE err \notin SelectionErrors

\* Six features selected: the run has failed at the selection check.
C8_Witness ==
    /\ vlayer # JNull
    /\ Len(selected) = 6
    /\ pc = "failed"
    /\ err = "TooManySelected"

\* A response has arrived whose status is not a success.
HttpFailed == status \notin {0, 200}

\* C7: the step that receives a non-success status aborts the run without
\* adding a row, and from then on no request of any kind is issued and no
\* row is added.
C7_AbortOnHttpFailure ==
    [][ /\ (status' \notin {0, 200} /\ status' # status) =>
              (pc' = "failed" /\ sinkCount' = sinkCount)
        /\ HttpFailed =>
              /\ pc = "failed"
              /\ pc' = "failed"
              /\ catalogReqs' = catalogReqs
              /\ analyseReqs' = analyseReqs
              /\ sinkCount' = sinkCount ]_vars

\* The third analyse request has returned 500 after rows were written.
C7_Witness ==
    /\ status = 500
    /\ pc = "failed"
    /\ err = "AnalyseRequest"
    /\ analyseReqs = 3
    /\ sinkCount = 2

\* C10: once cancellation has been requested no further analyse request is
\* issued; a request already in flight may complete.
C10_NoRequestAfterCancel ==
    [][ canceled => analyseReqs' = analyseReqs ]_vars

====
